---- MODULE Spec2Model ----
(***************************************************************************)
(* Model of the address-space bus of src/src/bus.rs: Bus::map,             *)
(* Bus::mapped_device, the Memory implementation (load, mem_read_u8,       *)
(* mem_write_u8), mirror_address, and the MockDevice of the test module.   *)
(*                                                                         *)
(* The address space is the caller's array [u8; 0xFFFF].  It is held as a  *)
(* function from the addresses whose byte differs from Fill to that byte;  *)
(* every other address below MEM_SIZE holds Fill.  MemGet / MemSet are     *)
(* the only way the model reads or writes it, so this is the full array.   *)
(***************************************************************************)
EXTENDS Integers, Sequences, FiniteSets, TLC

(* ----------------------------- constants ------------------------------ *)

\* const RAM_MIRRORING_MASK: u16 = 0b0000_0111_1111_1111
RAM_MIRRORING_MASK == 2047

\* const PPU_REGISTERS_MIRRORING_MASK: u16 = 0b0010_0000_0000_0111
PPU_REGISTERS_MIRRORING_MASK == 8199

\* memory: *mut [u8; 0xFFFF]  -- the array has 0xFFFF = 65535 elements
MEM_SIZE == 65535

\* u16::MAX, the largest address a caller can pass
U16_MAX == 65535

\* the byte the tests fill the array with: [99; 0xFFFF]
Fill == 99

\* MockDevice: memory: [*mut u8; 2], range start..start + 2
MOCK_LEN == 2

(* ------------------------------- bounds ------------------------------- *)

\* number of load / mem_read_u8 / mem_write_u8 calls in one behaviour
MaxOps == 2

\* number of entries the mapping table may grow to
MaxDevices == 2

\* longest data slice passed to load
MaxLoadLen == 2

(* ------------------------------ inputs -------------------------------- *)

\* starts of the MockDevices the caller constructs: 0 (RAM), 2048 (inside
\* the RAM mirror window, never a mirrored address), 16384 (pass-through
\* region), 65534 (range 65534..65536 does not fit the array)
Starts == {0, 2048, 16384, 65534}

\* addresses the caller accesses: both bytes of the device at 0, the first
\* address past it, the RAM alias of 0, the first byte of the device at
\* 16384, and the last 16-bit address
ProbeAddrs == {0, 1, 2, 2048, 16384, 65535}

\* bytes the caller writes
WriteVals == {0, 171}

\* sentinel for "no byte" / "no address"
None == 0 - 1

(* ------------------------------- state -------------------------------- *)

VARIABLES
    buffer,    \* the caller's array, the address space
    memory,    \* Bus.memory: "null" or "buffer"
    devices,   \* Bus.devices: sequence of [range, device]
    status,    \* "ok", "panic" (bounds failure), "segv" (null dereference)
    trace,     \* the bus accesses made so far
    last,      \* the last call, with the snapshots taken inside it
    arg,       \* input of the pure-function specifications
    res        \* results of the pure-function specifications

vars == <<buffer, memory, devices, status, trace, last, arg, res>>

(* ------------------------- the address space -------------------------- *)

EmptyMem == [x \in {} |-> Fill]

\* (*self.memory)[a] as an rvalue, for a < MEM_SIZE
MemGet(m, a) == IF a \in DOMAIN m THEN m[a] ELSE Fill

\* (*self.memory)[a] = v, for a < MEM_SIZE
MemSet(m, a, v) ==
    IF v = Fill
    THEN [x \in (DOMAIN m) \ {a} |-> m[x]]
    ELSE [x \in (DOMAIN m) \cup {a} |-> IF x = a THEN v ELSE m[x]]

\* bitwise and of two naturals
RECURSIVE BitAnd(_, _)
BitAnd(x, y) ==
    IF x = 0 \/ y = 0
    THEN 0
    ELSE (x % 2) * (y % 2) + 2 * BitAnd(x \div 2, y \div 2)

\* `as u8`
AsU8(n) == n % 256

(* --------------------------- mirror_address --------------------------- *)

\* bitwise or of two naturals
RECURSIVE BitOr(_, _)
BitOr(x, y) ==
    IF x = 0 THEN y
    ELSE IF y = 0 THEN x
    ELSE (IF x % 2 = 1 \/ y % 2 = 1 THEN 1 ELSE 0) + 2 * BitOr(x \div 2, y \div 2)

\* mirror_address folding a window once (subtracting its size) instead of masking
mirror_address_fold(addr) ==
    IF addr >= 2048 /\ addr <= 8191
    THEN addr - 2048
    ELSE IF addr >= 8200 /\ addr <= 16383
         THEN addr - 8
         ELSE addr

\* mirror_address with a 4 KiB RAM mask, 0b0000_1111_1111_1111
mirror_address_ram_4k(addr) ==
    IF addr >= 0 /\ addr <= 8191
    THEN BitAnd(addr, 4095)
    ELSE IF addr >= 8192 /\ addr <= 16383
         THEN BitAnd(addr, PPU_REGISTERS_MIRRORING_MASK)
         ELSE addr

\* mirror_address without the arm of the register window
mirror_address_no_ppu(addr) ==
    IF addr >= 0 /\ addr <= 8191
    THEN BitAnd(addr, RAM_MIRRORING_MASK)
    ELSE addr

\* fn mirror_address(addr: u16) -> u16
mirror_address(addr) ==
    IF addr >= 0 /\ addr <= 8191
    THEN BitAnd(addr, RAM_MIRRORING_MASK)
    ELSE IF addr >= 8192 /\ addr <= 16383
         THEN BitAnd(addr, PPU_REGISTERS_MIRRORING_MASK)
         ELSE addr

(* ----------------------------- MockDevice ----------------------------- *)

\* MockDevice::new(start): the pointers are null until Device::map
MockDevice_new(start) == [start |-> start, memory |-> <<None, None>>]

\* MockDevice::mapping_def
mapping_def(device) == [start |-> device.start, end |-> device.start + MOCK_LEN]

\* MockDevice::map taking the pointers one element too far
MockDevice_map_off_by_one(device, base) ==
    [device EXCEPT !.memory = [count \in 1..MOCK_LEN |-> base + count]]

\* MockDevice::map on the slice of the array that starts at `base`:
\* pointer `count` is the address of slice element `count`
MockDevice_map(device, base) ==
    [device EXCEPT !.memory = [count \in 1..MOCK_LEN |-> base + (count - 1)]]

\* MockDevice::mem_read, the hook the bus calls after a write:
\* (*self.memory[count]) = (i + 1) as u8, for i = start + count
RECURSIVE mem_read_loop(_, _, _)
mem_read_loop(m, device, count) ==
    IF count > MOCK_LEN
    THEN m
    ELSE mem_read_loop(MemSet(m, device.memory[count],
                              AsU8((device.start + (count - 1)) + 1)),
                       device, count + 1)

mem_read(m, device) == mem_read_loop(m, device, 1)

\* MockDevice::mem_write, the hook the bus calls before a read:
\* (*self.memory[count]) = (2 * i + 1) as u8, for i = start + count
RECURSIVE mem_write_loop(_, _, _)
mem_write_loop(m, device, count) ==
    IF count > MOCK_LEN
    THEN m
    ELSE mem_write_loop(MemSet(m, device.memory[count],
                               AsU8(2 * (device.start + (count - 1)) + 1)),
                        device, count + 1)

mem_write(m, device) == mem_write_loop(m, device, 1)

(* --------------------------------- Bus -------------------------------- *)

\* Range<usize>::contains: half-open
RangeContains(range, a) == range.start <= a /\ a < range.end

\* Bus::mapped_device: index of the first entry whose range contains addr,
\* 0 for None
mapped_device(devs, addr) ==
    LET hits == {i \in 1..Len(devs) : RangeContains(devs[i].range, addr)}
    IN  IF hits = {} THEN 0
        ELSE CHOOSE i \in hits : \A j \in hits : i <= j

\* &mut (*self.memory)[mapping]: the slice exists iff its end fits the array
SliceOk(range) == range.start <= range.end /\ range.end <= MEM_SIZE

\* the loop of Bus::map over the devices passed, from index k on
RECURSIVE MapLoop(_, _, _)
MapLoop(table, devs, k) ==
    IF k > Len(devs)
    THEN [devices |-> table, status |-> "ok"]
    ELSE LET mapping == mapping_def(devs[k])
         IN  IF ~SliceOk(mapping)
             THEN [devices |-> table, status |-> "panic"]
             ELSE MapLoop(Append(table,
                                 [range  |-> mapping,
                                  device |-> MockDevice_map(devs[k], mapping.start)]),
                          devs, k + 1)

\* Bus::map
map(table, devs) == MapLoop(table, devs, 1)

\* load copying the bytes that fit before it fails
load_partial(m, data, dest) ==
    IF dest + Len(data) > MEM_SIZE
    THEN [buffer |-> [x \in ((DOMAIN m) \cup (dest..(MEM_SIZE - 1)))
                        |-> IF x >= dest THEN data[x - dest + 1] ELSE m[x]],
          status |-> "panic"]
    ELSE [buffer |-> [x \in ((DOMAIN m) \cup {dest + i - 1 : i \in 1..Len(data)})
                        |-> IF x >= dest /\ x < dest + Len(data)
                            THEN data[x - dest + 1]
                            ELSE m[x]],
          status |-> "ok"]

\* Memory::load: the slice dest..dest + len is taken first, then the copy
load(m, data, dest) ==
    IF dest + Len(data) > MEM_SIZE
    THEN [buffer |-> m, status |-> "panic"]
    ELSE [buffer |-> [x \in ((DOMAIN m) \cup {dest + i - 1 : i \in 1..Len(data)})
                        |-> IF x >= dest /\ x < dest + Len(data)
                            THEN data[x - dest + 1]
                            ELSE m[x]],
          status |-> "ok"]

\* drop the entries that hold Fill, so that equal arrays are equal functions
Normal(m) == [x \in {y \in DOMAIN m : m[y] # Fill} |-> m[x]]

\* mem_read_u8 aborting on an address outside the mirrored windows that no
\* device covers, as not yet implemented
mem_read_u8_todo(m, devs, addr_in) ==
    LET addr == mirror_address(addr_in)
        dev  == mapped_device(devs, addr)
        m1   == IF dev # 0 THEN mem_write(m, devs[dev].device) ELSE m
    IN  IF addr < MEM_SIZE /\ ~(dev = 0 /\ addr_in > 16383)
        THEN [buffer |-> m1, status |-> "ok", ret |-> MemGet(m1, addr),
              maddr |-> addr, dev |-> dev, atHook |-> m]
        ELSE [buffer |-> m1, status |-> "panic", ret |-> None,
              maddr |-> addr, dev |-> dev, atHook |-> m]

\* mem_read_u8 calling the other hook of the device
mem_read_u8_wrong_hook(m, devs, addr_in) ==
    LET addr == mirror_address(addr_in)
        dev  == mapped_device(devs, addr)
        m1   == IF dev # 0 THEN mem_read(m, devs[dev].device) ELSE m
    IN  IF addr < MEM_SIZE
        THEN [buffer |-> m1, status |-> "ok", ret |-> MemGet(m1, addr),
              maddr |-> addr, dev |-> dev, atHook |-> m]
        ELSE [buffer |-> m1, status |-> "panic", ret |-> None,
              maddr |-> addr, dev |-> dev, atHook |-> m]

\* mem_read_u8 fetching the byte before it calls the hook
mem_read_u8_fetch_first(m, devs, addr_in) ==
    LET addr == mirror_address(addr_in)
        dev  == mapped_device(devs, addr)
        m1   == IF dev # 0 THEN mem_write(m, devs[dev].device) ELSE m
    IN  IF addr < MEM_SIZE
        THEN [buffer |-> m1, status |-> "ok", ret |-> MemGet(m, addr),
              maddr |-> addr, dev |-> dev, atHook |-> m]
        ELSE [buffer |-> m1, status |-> "panic", ret |-> None,
              maddr |-> addr, dev |-> dev, atHook |-> m]

\* Memory::mem_read_u8: mirror, hook of the mapped device, then the fetch
mem_read_u8(m, devs, addr_in) ==
    LET addr == mirror_address(addr_in)
        dev  == mapped_device(devs, addr)
        m1   == IF dev # 0 THEN mem_write(m, devs[dev].device) ELSE m
    IN  IF addr < MEM_SIZE
        THEN [buffer |-> m1, status |-> "ok", ret |-> MemGet(m1, addr),
              maddr |-> addr, dev |-> dev, atHook |-> m]
        ELSE [buffer |-> m1, status |-> "panic", ret |-> None,
              maddr |-> addr, dev |-> dev, atHook |-> m]

\* mem_write_u8 calling the other hook of the device
mem_write_u8_wrong_hook(m, devs, addr_in, data) ==
    LET addr == mirror_address(addr_in)
        dev  == mapped_device(devs, addr)
        m1   == MemSet(m, addr, data)
    IN  IF addr < MEM_SIZE
        THEN [buffer |-> IF dev # 0 THEN mem_write(m1, devs[dev].device) ELSE m1,
              status |-> "ok", ret |-> None,
              maddr |-> addr, dev |-> dev, atHook |-> m1]
        ELSE [buffer |-> m, status |-> "panic", ret |-> None,
              maddr |-> addr, dev |-> 0, atHook |-> m]

\* mem_write_u8 calling the hook before it stores the byte
mem_write_u8_hook_first(m, devs, addr_in, data) ==
    LET addr == mirror_address(addr_in)
        dev  == mapped_device(devs, addr)
        m1   == IF dev # 0 THEN mem_read(m, devs[dev].device) ELSE m
    IN  IF addr < MEM_SIZE
        THEN [buffer |-> MemSet(m1, addr, data), status |-> "ok", ret |-> None,
              maddr |-> addr, dev |-> dev, atHook |-> m]
        ELSE [buffer |-> m, status |-> "panic", ret |-> None,
              maddr |-> addr, dev |-> 0, atHook |-> m]

\* Memory::mem_write_u8: mirror, the store, then the hook of the mapped device
mem_write_u8(m, devs, addr_in, data) ==
    LET addr == mirror_address(addr_in)
        dev  == mapped_device(devs, addr)
        m1   == MemSet(m, addr, data)
    IN  IF addr < MEM_SIZE
        THEN [buffer |-> IF dev # 0 THEN mem_read(m1, devs[dev].device) ELSE m1,
              status |-> "ok", ret |-> None,
              maddr |-> addr, dev |-> dev, atHook |-> m1]
        ELSE [buffer |-> m, status |-> "panic", ret |-> None,
              maddr |-> addr, dev |-> 0, atHook |-> m]

(* ------------------------------ actions ------------------------------- *)

\* the record of a call: its arguments (addr, data, bytes; starts for the
\* devices passed to map), the array and the mapping table before it (pre,
\* table), and what happened inside it
NoCall == [op |-> "new", addr |-> None, data |-> None, bytes |-> <<>>,
           starts |-> <<>>, maddr |-> None, dev |-> 0, ret |-> None,
           pre |-> EmptyMem, table |-> <<>>, atHook |-> EmptyMem]

Entry(op, addr, data, dev, ret) ==
    [op |-> op, addr |-> addr, data |-> data, dev |-> dev, ret |-> ret]

\* Bus::new(), and the array the caller will hand to map
Init ==
    /\ buffer = EmptyMem
    /\ memory = "null"
    /\ devices = <<>>
    /\ status = "ok"
    /\ trace = <<>>
    /\ last = NoCall
    /\ arg = None
    /\ res = <<>>

\* the device lists a caller passes to one call of map
DeviceLists(n) == UNION {[1..k -> Starts] : k \in 0..n}

\* bus.map(&mut memory, devs), during the setup of the bus: before the
\* first access
Map(starts) ==
    /\ status = "ok"
    /\ trace = <<>>
    /\ Len(devices) + Len(starts) <= MaxDevices
    /\ LET r == map(devices, [k \in 1..Len(starts) |-> MockDevice_new(starts[k])])
       IN  /\ memory' = "buffer"
           /\ devices' = r.devices
           /\ status' = r.status
    /\ last' = [NoCall EXCEPT !.op = "map", !.starts = starts, !.pre = buffer,
                              !.table = devices]
    /\ UNCHANGED <<buffer, trace, arg, res>>

\* an access through the null pointer of Bus::new(): the addresses below
\* 64 KiB are not mapped in the process, the access faults
NullAccess ==
    /\ status = "ok"
    /\ memory = "null"
    /\ status' = "segv"
    /\ UNCHANGED <<buffer, memory, devices, trace, last, arg, res>>

\* bus.load(data, dest)
Load(data, dest) ==
    /\ status = "ok"
    /\ memory = "buffer"
    /\ Len(trace) < MaxOps
    /\ LET r == load(buffer, data, dest)
       IN  /\ buffer' = Normal(r.buffer)
           /\ status' = r.status
    /\ trace' = Append(trace, Entry("load", dest, None, 0, None))
    /\ last' = [NoCall EXCEPT !.op = "load", !.addr = dest, !.bytes = data,
                              !.pre = buffer, !.table = devices]
    /\ UNCHANGED <<memory, devices, arg, res>>

\* bus.mem_read_u8(addr)
MemReadU8(addr) ==
    /\ status = "ok"
    /\ memory = "buffer"
    /\ Len(trace) < MaxOps
    /\ LET r == mem_read_u8(buffer, devices, addr)
       IN  /\ buffer' = r.buffer
           /\ status' = r.status
           /\ trace' = Append(trace, Entry("read", addr, None, r.dev, r.ret))
           /\ last' = [NoCall EXCEPT !.op = "read", !.addr = addr,
                                     !.maddr = r.maddr, !.dev = r.dev, !.ret = r.ret,
                                     !.pre = buffer, !.table = devices,
                                     !.atHook = r.atHook]
    /\ UNCHANGED <<memory, devices, arg, res>>

\* bus.mem_write_u8(addr, data)
MemWriteU8(addr, data) ==
    /\ status = "ok"
    /\ memory = "buffer"
    /\ Len(trace) < MaxOps
    /\ LET r == mem_write_u8(buffer, devices, addr, data)
       IN  /\ buffer' = r.buffer
           /\ status' = r.status
           /\ trace' = Append(trace, Entry("write", addr, data, r.dev, None))
           /\ last' = [NoCall EXCEPT !.op = "write", !.addr = addr, !.data = data,
                                     !.maddr = r.maddr, !.dev = r.dev,
                                     !.pre = buffer, !.table = devices,
                                     !.atHook = r.atHook]
    /\ UNCHANGED <<memory, devices, arg, res>>

\* the data slices and destinations a caller passes to load
LoadData == UNION {[1..k -> {7}] : k \in 0..MaxLoadLen}
LoadDests == {2048, 65534, 65535}

Next ==
    \/ \E starts \in DeviceLists(MaxDevices) : Map(starts)
    \/ NullAccess
    \/ \E data \in LoadData, dest \in LoadDests : Load(data, dest)
    \/ \E addr \in ProbeAddrs : MemReadU8(addr)
    \/ \E addr \in ProbeAddrs, data \in WriteVals : MemWriteU8(addr, data)

Spec == Init /\ [][Next]_vars

(* ------------------- specifications of the mirroring ------------------ *)

\* mirror_address applied to an address, then to its own result
InitMirror ==
    /\ Init!1 /\ Init!2 /\ Init!3 /\ Init!4 /\ Init!5 /\ Init!6 /\ Init!8
    /\ arg \in 0..U16_MAX

ApplyMirror ==
    /\ Len(res) < 2
    /\ res' = Append(res, mirror_address(IF res = <<>> THEN arg ELSE res[Len(res)]))
    /\ UNCHANGED <<buffer, memory, devices, status, trace, last, arg>>

SpecMirror == InitMirror /\ [][ApplyMirror]_vars

\* the address the spec pairs with an address of a mirrored window
WindowPeer(a) ==
    IF a <= 8191
    THEN BitAnd(a, 2047)
    ELSE BitOr(8192, BitAnd(a, 8199))

\* no device is mapped: map is called with an empty device list
NextWindow ==
    \/ Map(<<>>)
    \/ \E data \in WriteVals : MemWriteU8(arg, data)
    \/ MemReadU8(arg)
    \/ MemReadU8(WindowPeer(arg))

\* accesses at one address of the RAM window 0x0000..=0x1FFF and its peer
InitRam ==
    /\ Init!1 /\ Init!2 /\ Init!3 /\ Init!4 /\ Init!5 /\ Init!6 /\ Init!8
    /\ arg \in 0..8191

SpecRam == InitRam /\ [][NextWindow]_vars

\* accesses at one address of the register window 0x2000..=0x3FFF and its peer
InitPpu ==
    /\ Init!1 /\ Init!2 /\ Init!3 /\ Init!4 /\ Init!5 /\ Init!6 /\ Init!8
    /\ arg \in 8192..16383

SpecPpu == InitPpu /\ [][NextWindow]_vars

(* ------------------------------ claims -------------------------------- *)

\* entry i of the mapping table covers address a (half-open range)
InRange(i, a) == devices[i].range.start <= a /\ a < devices[i].range.end

\* the entries whose range holds the mirrored address of the last call
Matching == {i \in 1..Len(devices) : InRange(i, mirror_address(last.addr))}

\* the first of them, in registration order
FirstMatching == CHOOSE i \in Matching : \A j \in Matching : i <= j

C2_WriteStoreThenHook ==
    (last.op = "write" /\ Matching # {}) =>
        /\ status = "ok"
        /\ last.dev = FirstMatching
        /\ last.maddr = mirror_address(last.addr)
        /\ MemGet(last.atHook, last.maddr) = last.data
        /\ last.atHook = MemSet(last.pre, last.maddr, last.data)
        /\ buffer = mem_read(last.atHook, devices[last.dev].device)

\* C2 witness: a write changed the byte of a device, the hook saw the new
\* byte and then replaced it
C2_Witness ==
    /\ last.op = "write"
    /\ last.dev # 0
    /\ MemGet(last.pre, last.maddr) # last.data
    /\ MemGet(last.atHook, last.maddr) = last.data
    /\ MemGet(buffer, last.maddr) # last.data

\* two mock devices are registered, at disjoint ranges
TwoDisjointDevices ==
    /\ status = "ok"
    /\ Len(devices) = 2
    /\ \/ devices[1].range.end <= devices[2].range.start
       \/ devices[2].range.end <= devices[1].range.start

\* the addresses of the ranges of the registered devices
RangeAddrs == UNION {devices[i].range.start .. (devices[i].range.end - 1)
                       : i \in 1..Len(devices)}

\* every address of a registered range is its own mirrored address
RangesUnmirrored == \A a \in RangeAddrs : mirror_address(a) = a

\* the accesses made are exactly two calls `op`, the first inside the range
\* of entry p1 and the second inside the range of entry p2
OneInEach(op, p1, p2) ==
    /\ Len(trace) = 2
    /\ trace[1].op = op /\ trace[2].op = op
    /\ InRange(p1, trace[1].addr) /\ InRange(p2, trace[2].addr)

\* every byte outside the registered ranges holds its initial value
OthersInitial == \A a \in (DOMAIN buffer) \ RangeAddrs : buffer[a] = Fill

\* C3 as stated: after one read inside each of two disjoint device ranges,
\* each read fired the hook of its own device only, every byte i of both
\* ranges holds 2 * i + 1 and every other byte its initial value.
C3_ReadScenarioAsStated ==
    \A p \in {<<1, 2>>, <<2, 1>>} :
        (TwoDisjointDevices /\ OneInEach("read", p[1], p[2])) =>
            /\ trace[1].dev = p[1] /\ trace[2].dev = p[2]
            /\ \A a \in RangeAddrs : MemGet(buffer, a) = 2 * a + 1
            /\ OthersInitial

\* C3 amended: the same, for ranges made of addresses that are their own
\* mirrored address, and with byte i set to (2 * i + 1) as u8.
C3_ReadScenario ==
    \A p \in {<<1, 2>>, <<2, 1>>} :
        (TwoDisjointDevices /\ RangesUnmirrored /\ OneInEach("read", p[1], p[2])) =>
            /\ trace[1].dev = p[1] /\ trace[2].dev = p[2]
            /\ \A a \in RangeAddrs : MemGet(buffer, a) = AsU8(2 * a + 1)
            /\ OthersInitial

\* C3 witness: devices at 0 and 16384, one read in each range, one of them
\* at the second byte of its range, all four bytes set by the hooks
C3_Witness ==
    /\ TwoDisjointDevices /\ RangesUnmirrored
    /\ \E p \in {<<1, 2>>, <<2, 1>>} :
           /\ OneInEach("read", p[1], p[2])
           /\ trace[1].addr = devices[p[1]].range.start + 1
    /\ \E a \in RangeAddrs : 2 * a + 1 > 255
    /\ \A a \in RangeAddrs : MemGet(buffer, a) = AsU8(2 * a + 1)

\* the two writes of the write scenario store 0
WritesZero == \A k \in 1..Len(trace) : trace[k].data = 0

\* C4 as stated: after one write of 0 inside each of two disjoint device
\* ranges, each write fired the hook of its own device only, every byte i
\* of both ranges holds i + 1 and every other byte its initial value.
C4_WriteScenarioAsStated ==
    \A p \in {<<1, 2>>, <<2, 1>>} :
        (TwoDisjointDevices /\ OneInEach("write", p[1], p[2]) /\ WritesZero) =>
            /\ trace[1].dev = p[1] /\ trace[2].dev = p[2]
            /\ \A a \in RangeAddrs : MemGet(buffer, a) = a + 1
            /\ OthersInitial

\* C4 amended: the same, for ranges made of addresses that are their own
\* mirrored address, and with byte i set to (i + 1) as u8.
C4_WriteScenario ==
    \A p \in {<<1, 2>>, <<2, 1>>} :
        (TwoDisjointDevices /\ RangesUnmirrored
            /\ OneInEach("write", p[1], p[2]) /\ WritesZero) =>
            /\ trace[1].dev = p[1] /\ trace[2].dev = p[2]
            /\ \A a \in RangeAddrs : MemGet(buffer, a) = AsU8(a + 1)
            /\ OthersInitial

\* C4 witness: devices at 0 and 16384, a write of 0 in each range, one of
\* them at the second byte of its range, the 0 replaced by the hook
C4_Witness ==
    /\ TwoDisjointDevices /\ RangesUnmirrored
    /\ \E p \in {<<1, 2>>, <<2, 1>>} :
           /\ OneInEach("write", p[1], p[2])
           /\ trace[2].addr = devices[p[2]].range.start + 1
    /\ WritesZero
    /\ \E a \in RangeAddrs : a + 1 > 255
    /\ \A k \in 1..2 : MemGet(buffer, trace[k].addr) # 0

\* C5: a write of v at an address whose mirrored address lies in no
\* registered range completes, and a read at the same address made right
\* after it returns v.
C5_WriteReadRoundTrip ==
    (last.op = "write" /\ Matching = {}) =>
        /\ status = "ok"
        /\ mem_read_u8(buffer, devices, last.addr).status = "ok"
        /\ mem_read_u8(buffer, devices, last.addr).ret = last.data

\* C6: a mem_read_u8 or mem_write_u8 at any 16-bit address is an in-bounds
\* access to the address-space array and ends without a bounds failure.
C6_AccessInBounds ==
    (last.op \in {"read", "write"}) =>
        /\ last.maddr < MEM_SIZE
        /\ status = "ok"

\* C7: mirror_address applied to its own result returns that result.
C7_MirrorIdempotent == (Len(res) = 2) => (res[2] = res[1])

\* C7 witness: an address of the register window that mirroring changed,
\* mirrored a second time
C7_Witness == Len(res) = 2 /\ arg >= 8200 /\ arg <= 16383 /\ res[1] # arg

\* no entry of the mapping table reaches into lo..hi
NoDeviceIn(lo, hi) ==
    \A i \in 1..Len(devices) :
        devices[i].range.end <= lo \/ devices[i].range.start > hi

\* C8: with no device in the RAM window, in every state the bus reaches a
\* read at an address a of 0x0000..=0x1FFF returns the byte a read at
\* a & 0x07FF returns.
C8_RamMirrorEquivalence ==
    (status = "ok" /\ memory = "buffer" /\ arg \in 0..8191 /\ NoDeviceIn(0, 8191)) =>
        LET r1 == mem_read_u8(buffer, devices, arg)
            r2 == mem_read_u8(buffer, devices, BitAnd(arg, 2047))
        IN  /\ r1.status = "ok" /\ r2.status = "ok"
            /\ r1.ret = r2.ret

\* C8 witness: a byte written through an address above 0x07FF was read back
\* through a & 0x07FF
C8_Witness ==
    /\ arg \in 2048..8191
    /\ Len(trace) = 2
    /\ trace[1].op = "write" /\ trace[1].addr = arg
    /\ trace[2].op = "read" /\ trace[2].addr = BitAnd(arg, 2047)
    /\ trace[2].ret = trace[1].data /\ trace[2].ret # Fill

\* C9: with no device in the register window, in every state the bus
\* reaches a read at an address a of 0x2000..=0x3FFF returns the byte a read
\* at 0x2000 | (a & 0x2007) returns, an address of 0x2000..=0x2007.
C9_RegisterMirrorEquivalence ==
    (status = "ok" /\ memory = "buffer" /\ arg \in 8192..16383
        /\ NoDeviceIn(8192, 16383)) =>
        LET peer == BitOr(8192, BitAnd(arg, 8199))
            r1 == mem_read_u8(buffer, devices, arg)
            r2 == mem_read_u8(buffer, devices, peer)
        IN  /\ peer \in 8192..8199
            /\ r1.status = "ok" /\ r2.status = "ok"
            /\ r1.ret = r2.ret

\* C9 witness: a byte written through an address above 0x2007 was read back
\* through its register address
C9_Witness ==
    /\ arg \in 8200..16383
    /\ Len(trace) = 2
    /\ trace[1].op = "write" /\ trace[1].addr = arg
    /\ trace[2].op = "read" /\ trace[2].addr = BitOr(8192, BitAnd(arg, 8199))
    /\ trace[2].ret = trace[1].data /\ trace[2].ret # Fill

\* C10: an access whose mirrored address lies in no registered range calls
\* no hook; a read leaves the whole address space as it was, a write
\* changes the byte at the mirrored address to v and no other byte.
C10_UnmappedPlainAccess ==
    /\ (last.op = "read" /\ Matching = {}) =>
            /\ last.dev = 0
            /\ buffer = last.pre
    /\ (last.op = "write" /\ Matching = {}) =>
            /\ last.dev = 0
            /\ MemGet(buffer, mirror_address(last.addr)) = last.data
            /\ buffer = MemSet(last.pre, mirror_address(last.addr), last.data)

\* the addresses at which the array differs from what it was before the
\* last call
Changed == {a \in (DOMAIN buffer) \cup (DOMAIN last.pre) :
                MemGet(buffer, a) # MemGet(last.pre, a)}

\* the destination of the last load: dest .. dest + len - 1
LoadDest == last.addr .. (last.addr + Len(last.bytes) - 1)

\* C11: a load whose destination ends at or below 65536 completes, puts
\* data[i] at the unmirrored address dest + i, changes no other byte and
\* runs no hook, also over a device range or a mirrored window.
C11_LoadPlainCopy ==
    (last.op = "load" /\ last.addr + Len(last.bytes) <= U16_MAX + 1) =>
        /\ status = "ok"
        /\ \A i \in 1..Len(last.bytes) :
               MemGet(buffer, last.addr + i - 1) = last.bytes[i]
        /\ Changed \subseteq LoadDest

\* C12: a call of map appends one entry per device passed, in the order
\* passed, after the entries the table had; the range of each entry is the
\* mapping_def of its device, and pointer k of the device is the address
\* range.start + k of the array the bus holds.
C12_MapRegisters ==
    (last.op = "map") =>
        /\ status = "ok"
        /\ memory = "buffer"
        /\ Len(devices) = Len(last.table) + Len(last.starts)
        /\ SubSeq(devices, 1, Len(last.table)) = last.table
        /\ \A k \in 1..Len(last.starts) :
               LET e == devices[Len(last.table) + k]
               IN  /\ e.device.start = last.starts[k]
                   /\ e.range = [start |-> last.starts[k],
                                 end |-> last.starts[k] + MOCK_LEN]
                   /\ \A j \in 1..MOCK_LEN :
                          e.device.memory[j] = e.range.start + (j - 1)

\* C13: an access calls the hook of the device of entry i exactly when the
\* mirrored address lies in the half-open range of entry i; so an alias of
\* a device address fires the hook, range.end does not, and a range lying
\* inside 0x0800..=0x1FFF or 0x2008..=0x3FFF is never hooked.
C13_LookupMirroredHalfOpen ==
    (last.op \in {"read", "write"}) =>
        \A i \in 1..Len(devices) :
            (last.dev = i) <=> InRange(i, mirror_address(last.addr))

\* C14: the range of at most one entry holds the mirrored address of an
\* access, and the access calls the hook of at most one device, the first
\* entry in registration order whose range holds the address.
C14_AtMostOneMatch ==
    (last.op \in {"read", "write"}) =>
        /\ Cardinality(Matching) <= 1
        /\ (Matching = {}) => (last.dev = 0)
        /\ (Matching # {}) => (last.dev = FirstMatching)

\* C15: after any calls of map, also repeated ones and ones with devices
\* whose declared ranges intersect, the ranges of the entries of the
\* mapping table are pairwise non-overlapping.
C15_NonOverlap ==
    \A i, j \in 1..Len(devices) :
        (i < j) =>
            \/ devices[i].range.end <= devices[j].range.start
            \/ devices[j].range.end <= devices[i].range.start

\* address a lies in the range of some entry of the mapping table
InAnyRange(a) == \E i \in 1..Len(devices) : InRange(i, a)

\* the last call stored to address a itself: a bus write whose mirrored
\* address is a, or a load whose destination holds a
StoredTo(a) ==
    \/ last.op = "write" /\ a = mirror_address(last.addr)
    \/ last.op = "load" /\ a \in LoadDest

\* the last call ran the hook of a device whose range holds a
HookedOver(a) ==
    /\ last.op \in {"read", "write"}
    /\ last.dev # 0
    /\ InRange(last.dev, a)

\* C16: a byte in no registered range changes only as the mirrored target
\* of a bus write or inside the destination of a load; a hook changes
\* bytes of the range of its own device only; a byte of a device range
\* changes only by a hook of that range, a bus write to it, or a load.
C16_DeviceConfinement ==
    \A a \in Changed :
        /\ (~InAnyRange(a)) => StoredTo(a)
        /\ (~StoredTo(a)) => HookedOver(a)
        /\ InAnyRange(a) => (StoredTo(a) \/ HookedOver(a))

\* C16 witness: a read ran a hook that changed bytes of its device while a
\* byte outside every range, set earlier by a bus write, kept its value
C16_Witness ==
    /\ last.op = "read" /\ last.dev # 0
    /\ Changed # {}
    /\ \E a \in DOMAIN buffer :
           ~InAnyRange(a) /\ MemGet(last.pre, a) = buffer[a]
    /\ Len(trace) = 2 /\ trace[1].op = "write" /\ trace[1].dev = 0

\* C17: a load whose destination ends past the end of the array fails with
\* a bounds failure before any byte is copied: the array and the mapping
\* table are what they were before the call.
C17_LoadOutOfRangeAtomic ==
    (last.op = "load" /\ last.addr + Len(last.bytes) > MEM_SIZE) =>
        /\ status = "panic"
        /\ Changed = {}
        /\ buffer = last.pre
        /\ devices = last.table

\* C17 witness: a load of two bytes at 0xFFFF, past the end of the 16-bit
\* address range, failed with a device registered and the array untouched
C17_Witness ==
    /\ last.op = "load"
    /\ last.addr + Len(last.bytes) > U16_MAX + 1
    /\ status = "panic"
    /\ Len(devices) > 0
    /\ buffer = last.pre

\* the last call is a bus access at an address above the mirrored windows
\* (0x0000..=0x3FFF) that lies in no registered range
UnmappedHigh ==
    /\ last.op \in {"read", "write"}
    /\ last.addr > 16383
    /\ ~InAnyRange(last.addr)

\* C18 as stated: such an access ends in a fatal abort and neither returns
\* nor stores a byte.
C18_UnmappedAbortsAsStated ==
    UnmappedHigh =>
        /\ status # "ok"
        /\ last.ret = None
        /\ buffer = last.pre

\* C18 amended: such an access is a plain access at the address itself: at
\* 0x4000..=0xFFFE a read returns the byte stored there and changes
\* nothing, a write stores its byte there and changes nothing else, and
\* neither aborts; only at 0xFFFF, the index past the array, the access
\* ends in a bounds failure with the array unchanged.
C18_UnmappedPassThrough ==
    UnmappedHigh =>
        /\ last.maddr = last.addr
        /\ last.dev = 0
        /\ (last.addr < MEM_SIZE) => (status = "ok")
        /\ (last.addr < MEM_SIZE /\ last.op = "read") =>
               (last.ret = MemGet(last.pre, last.addr) /\ buffer = last.pre)
        /\ (last.addr < MEM_SIZE /\ last.op = "write") =>
               (buffer = MemSet(last.pre, last.addr, last.data))
        /\ (last.addr >= MEM_SIZE) => (status = "panic" /\ buffer = last.pre)

\* C18 witness: a byte written at 0x4000 with no device there was read back
\* from 0x4000, both calls returning
C18_Witness ==
    /\ UnmappedHigh
    /\ last.op = "read" /\ status = "ok"
    /\ Len(trace) = 2
    /\ trace[1].op = "write" /\ trace[1].addr = last.addr
    /\ last.ret = trace[1].data /\ last.ret # Fill

(* ------------- specification of the bytes behind the mirrors ---------- *)

\* the byte a caller loads and the byte it writes at the address `arg`
ShadowLoadByte == 7
ShadowWriteByte == 171

\* no device is mapped; the caller loads one byte at `arg`, unmirrored, and
\* reads and writes through the bus at `arg`
NextShadow ==
    \/ Map(<<>>)
    \/ Load(<<ShadowLoadByte>>, arg)
    \/ MemWriteU8(arg, ShadowWriteByte)
    \/ MemReadU8(arg)

\* calls at one address of the whole 16-bit range
InitShadow ==
    /\ Init!1 /\ Init!2 /\ Init!3 /\ Init!4 /\ Init!5 /\ Init!6 /\ Init!8
    /\ arg \in 0..U16_MAX

SpecShadow == InitShadow /\ [][NextShadow]_vars

\* the physical addresses behind the mirrors: 0x0800..=0x1FFF, 0x2008..=0x3FFF
Shadowed(a) == (a >= 2048 /\ a <= 8191) \/ (a >= 8200 /\ a <= 16383)

\* 0x0000..=0x07FF, 0x2000..=0x2007, 0x4000..=0xFFFF
MirrorImage(a) ==
    \/ (a >= 0 /\ a <= 2047)
    \/ (a >= 8192 /\ a <= 8199)
    \/ (a >= 16384 /\ a <= U16_MAX)

\* C19: the mirrored address of every 16-bit address lies in 0x0000..=0x07FF,
\* 0x2000..=0x2007 or 0x4000..=0xFFFF; with no device mapped a bus read or
\* write indexes no byte of 0x0800..=0x1FFF or 0x2008..=0x3FFF and changes
\* none, so these bytes keep the value they had or a load gave them.
C19_ShadowedBytesUntouched ==
    /\ (arg \in 0..U16_MAX) => MirrorImage(mirror_address(arg))
    /\ (last.op \in {"read", "write"} /\ Len(devices) = 0) =>
           /\ last.maddr = mirror_address(last.addr)
           /\ ~Shadowed(last.maddr)
           /\ \A a \in Changed : ~Shadowed(a)
           /\ (last.op = "read" /\ status = "ok") =>
                  last.ret = MemGet(last.pre, last.maddr)
    /\ \A a \in DOMAIN buffer :
           Shadowed(a) =>
               /\ buffer[a] = ShadowLoadByte
               /\ \E k \in 1..Len(trace) : trace[k].op = "load" /\ trace[k].addr = a

\* C19 witness: a byte loaded at an address behind a mirror kept its value
\* through a bus write at that address, which went to the mirrored address
C19_Witness ==
    /\ Shadowed(arg)
    /\ Len(trace) = 2
    /\ trace[1].op = "load" /\ trace[2].op = "write"
    /\ status = "ok"
    /\ MemGet(buffer, arg) = ShadowLoadByte
    /\ MemGet(buffer, mirror_address(arg)) = ShadowWriteByte

====
